---- MODULE Spec2Model ----
(***************************************************************************)
(* The S3Bucket reconciler of KubeS3                                       *)
(* (internal/controller/s3bucket_controller.go): the event predicates of   *)
(* SetupWithManager, Reconcile, handleCreate and handleDelete, run against *)
(* an object store, the informer cache the predicates write to, a          *)
(* deduplicating work queue with a retry limiter, and the external bucket  *)
(* API.                                                                    *)
(***************************************************************************)
EXTENDS Naturals, Sequences, FiniteSets, TLC

\* ---------------------------------------------------------------- bounds
Keys == {"k1", "k2"}
BucketNames == {"b1", "b2"}
MaxGen == 2
MaxPending == 1

\* ------------------------------------------------------------- constants
\* internal/models/operator.go
CreatingEvent == "creating"
CreatedEvent == "created"
UpdatingEvent == "updating"
UpdatedEvent == "updated"
DeletingEvent == "deleting"
DeletedEvent == "deleted"
GenericEvent == "generic"

\* "nil": the object has no annotations map at all; "none": it has a map
\* that lacks the nullzen.ai/state key.
NilAnnotations == "nil"
NoState == "none"
\* a value of the state annotation that is none of the events
UnknownState == "unknown"

\* the annotations a user may submit an object with
CreateAnnInputs == {NilAnnotations, NoState, GenericEvent, UnknownState}

\* the retry limiter: maximum number of retries of one key, base and maximum
\* delay (in units of time)
MaxTries == 3
BaseDelay == 1
MaxDelay == 3

VARIABLES
    life,       \* life[k]: "unborn", "live" or "removed": the record in the store
    store,      \* store[k]: the stored object (metadata the controller reads)
    bucketName, \* bucketName[k]: spec.bucketName of the object (immutable)
    events,     \* events[k]: watch notifications not yet delivered to the informer
    cache,      \* cache[k]: the informer's copy of the object, which predicates mutate
    queued,     \* queued[k]: the key waits in the work queue
    dirty,      \* dirty[k]: the key was added again while being reconciled
    failures,   \* failures[k]: the retry limiter's failure count of the key
    delays,     \* delays[k]: the delays the limiter gave the key since its last success
    pc,         \* pc[k]: where the worker reconciling k stands
    b,          \* b[k]: the object Reconcile fetched (its local copy)
    bucket,     \* bucket[n]: the external bucket n exists
    made,       \* made[k]: a CreateBucket of k's handler succeeded and no DeleteBucket of it since
    everMade,   \* everMade[k]: a CreateBucket call of k's handler has succeeded
    everGone,   \* everGone[k]: DeleteBucket and WaitUntilBucketNotExists of k's handler succeeded in one run
    patchLost,  \* patchLost[k]: the latest finalizer-removing Patch of k's delete handler failed
    result,     \* result[k]: how the latest Reconcile call on k returned
    phase,      \* phase[k]: the state last stamped by a predicate or written by a handler
    running     \* the controller process is up

vars == <<life, store, bucketName, events, cache, queued, dirty, failures, delays, pc, b,
          bucket, made, everMade, everGone, patchLost, result, phase, running>>

storeVars == <<life, store, bucketName>>
queueVars == <<queued, dirty, failures, delays, result>>
extVars == <<bucket, made, everMade, everGone, patchLost>>
handlerVars == <<pc, b, phase, running>>

\* run: "create", "delete", "none" (no handler called) or "fetch" (Get failed);
\* retries: the failed Reconcile calls on the key before this one
NoResult == [run |-> "-", ok |-> FALSE, retries |-> 0]

Result(run, ok, retries) == [run |-> run, ok |-> ok, retries |-> retries]

NoObj == [present |-> FALSE, ann |-> NoState, fin |-> FALSE, del |-> FALSE, gen |-> 0]

NewObj(a) == [present |-> TRUE, ann |-> a, fin |-> FALSE, del |-> FALSE, gen |-> 1]

\* ------------------------------------------------------ Event Classifier
\* A predicate's outcome: whether the notification is admitted, the object
\* as the predicate leaves it, and whether the predicate panicked (an
\* assignment to an entry of a nil map).
Outcome(admit, obj, panic) == [admit |-> admit, obj |-> obj, panic |-> panic]

CreateSteps == {"c_secret", "c_session", "c_create", "c_wait", "c_patch"}
DeleteSteps == {"d_secret", "d_session", "d_delete", "d_wait", "d_patch"}

\* GetAnnotations()[StateAnnotation] = v
SetState(obj, v) ==
    IF obj.ann = NilAnnotations
    THEN Outcome(FALSE, obj, TRUE)
    ELSE Outcome(TRUE, [obj EXCEPT !.ann = v], FALSE)

\* mutant: the predicate also puts the finalizer on the object it admits
CreateFunc_AddsFinalizer(obj) ==
    IF obj.del
    THEN SetState(obj, DeletingEvent)
    ELSE SetState([obj EXCEPT !.fin = TRUE], CreatingEvent)

CreateFunc(obj) ==
    IF obj.del
    THEN SetState(obj, DeletingEvent)
    ELSE SetState(obj, CreatingEvent)

\* mutant: the generation is not compared
UpdateFunc_NoGenerationCheck(old, new) ==
    IF new.del
    THEN SetState(new, DeletingEvent)
    ELSE SetState(new, UpdatingEvent)

UpdateFunc(old, new) ==
    IF new.gen = old.gen
    THEN Outcome(FALSE, new, FALSE)
    ELSE IF new.del
         THEN SetState(new, DeletingEvent)
         ELSE SetState(new, UpdatingEvent)

GenericFunc(obj) == SetState(obj, GenericEvent)

\* predicate.Funcs without a DeleteFunc admits every delete notification
DeleteFunc(obj) == Outcome(TRUE, obj, FALSE)

\* ------------------------------------------------------------ the store
Ev(kind, obj) == [kind |-> kind, obj |-> obj]

\* a stopped process has no watch open: nothing is sent to it
HasRoom(k) == ~running \/ Len(events[k]) < MaxPending

\* the watch sends the stored object after every write of it
Notify(k, kind, obj) ==
    events' = IF running THEN [events EXCEPT ![k] = Append(@, Ev(kind, obj))] ELSE events

TypeOK ==
    /\ life \in [Keys -> {"unborn", "live", "removed"}]
    /\ bucketName \in [Keys -> BucketNames]
    /\ queued \in [Keys -> BOOLEAN]
    /\ dirty \in [Keys -> BOOLEAN]
    /\ failures \in [Keys -> 0..MaxTries]
    /\ bucket \in [BucketNames -> BOOLEAN]
    /\ \A k \in Keys : Len(events[k]) <= MaxPending
    /\ \A k \in Keys : store[k].gen <= MaxGen /\ (store[k].present <=> life[k] = "live")

\* the state after construction, with the objects of `users` still to be
\* created by their users and named by `names`
InitWith(users, names) ==
    /\ life = [k \in Keys |-> IF k \in users THEN "unborn" ELSE "removed"]
    /\ store = [k \in Keys |-> NoObj]
    /\ bucketName \in names
    /\ events = [k \in Keys |-> <<>>]
    /\ cache = [k \in Keys |-> NoObj]
    /\ queued = [k \in Keys |-> FALSE]
    /\ dirty = [k \in Keys |-> FALSE]
    /\ failures = [k \in Keys |-> 0]
    /\ delays = [k \in Keys |-> <<>>]
    /\ pc = [k \in Keys |-> "idle"]
    /\ b = [k \in Keys |-> NoObj]
    /\ bucket = [n \in BucketNames |-> FALSE]
    /\ made = [k \in Keys |-> FALSE]
    /\ everMade = [k \in Keys |-> FALSE]
    /\ everGone = [k \in Keys |-> FALSE]
    /\ patchLost = [k \in Keys |-> FALSE]
    /\ result = [k \in Keys |-> NoResult]
    /\ phase = [k \in Keys |-> NoState]
    /\ running = TRUE

\* one object, k1, naming bucket b1
Init == InitWith({"k1"}, {[k \in Keys |-> IF k = "k1" THEN "b1" ELSE "b2"]})

\* a user creates the object
UserCreate(k) ==
    /\ life[k] = "unborn"
    /\ HasRoom(k)
    /\ \E a \in CreateAnnInputs :
        /\ store' = [store EXCEPT ![k] = NewObj(a)]
        /\ Notify(k, "create", NewObj(a))
    /\ life' = [life EXCEPT ![k] = "live"]
    /\ UNCHANGED <<bucketName, cache, queueVars, handlerVars, extVars>>

\* a user edits the spec: the store raises the generation
UserEditSpec(k) ==
    /\ life[k] = "live"
    /\ HasRoom(k)
    /\ store[k].gen < MaxGen
    /\ store' = [store EXCEPT ![k].gen = @ + 1]
    /\ Notify(k, "update", store'[k])
    /\ UNCHANGED <<life, bucketName, cache, queueVars, handlerVars, extVars>>

\* a user (or anything else) writes metadata or status: generation unchanged
UserEditMeta(k) ==
    /\ life[k] = "live"
    /\ HasRoom(k)
    /\ Notify(k, "update", store[k])
    /\ UNCHANGED <<storeVars, cache, queueVars, handlerVars, extVars>>

\* a user requests removal: with a finalizer present the store only sets the
\* deletion timestamp; without one it removes the record at once.
\* bump: whether this store raises the generation with the deletion timestamp.
UserDelete(k, bump) ==
    /\ life[k] = "live"
    /\ ~store[k].del
    /\ HasRoom(k)
    /\ bump => store[k].gen < MaxGen
    /\ IF store[k].fin
       THEN /\ store' = [store EXCEPT ![k].del = TRUE,
                                      ![k].gen = IF bump THEN @ + 1 ELSE @]
            /\ Notify(k, "update", store'[k])
            /\ life' = life
       ELSE /\ store' = [store EXCEPT ![k] = NoObj]
            /\ Notify(k, "delete", store[k])
            /\ life' = [life EXCEPT ![k] = "removed"]
    /\ UNCHANGED <<bucketName, cache, queueVars, handlerVars, extVars>>

\* the store completes the removal of a record that is marked for deletion
\* and holds no finalizer
StoreRemove(k) ==
    /\ life[k] = "live"
    /\ store[k].del /\ ~store[k].fin
    /\ HasRoom(k)
    /\ store' = [store EXCEPT ![k] = NoObj]
    /\ Notify(k, "delete", store[k])
    /\ life' = [life EXCEPT ![k] = "removed"]
    /\ UNCHANGED <<bucketName, cache, queueVars, handlerVars, extVars>>

\* ---------------------------------------------- informer and work queue
\* controller.Options sets no MaxConcurrentReconciles: one worker
MaxConcurrentReconciles == 1

\* the process ends: nothing held in memory survives
Halt ==
    /\ running' = FALSE
    /\ events' = [k \in Keys |-> <<>>]
    /\ cache' = [k \in Keys |-> NoObj]
    /\ queued' = [k \in Keys |-> FALSE]
    /\ dirty' = [k \in Keys |-> FALSE]
    /\ failures' = [k \in Keys |-> 0]
    /\ delays' = [k \in Keys |-> <<>>]
    /\ pc' = [k \in Keys |-> "idle"]
    /\ b' = [k \in Keys |-> NoObj]
    /\ patchLost' = [k \in Keys |-> FALSE]
    /\ result' = [k \in Keys |-> NoResult]
    /\ UNCHANGED <<storeVars, bucket, made, everMade, everGone, phase>>

\* the controller process is stopped from outside
Stop ==
    /\ running
    /\ Halt

\* the process starts (again): the informer lists the store, which yields a
\* create notification per record
Start ==
    /\ ~running
    /\ running' = TRUE
    /\ events' = [k \in Keys |->
                    IF life[k] = "live" THEN <<Ev("create", store[k])>> ELSE <<>>]
    /\ UNCHANGED <<storeVars, cache, queueVars, pc, b, phase, extVars>>

\* workqueue.Add: a key being processed is marked dirty and queued again
\* when its processing ends
Add(k) ==
    IF pc[k] # "idle"
    THEN /\ dirty' = [dirty EXCEPT ![k] = TRUE]
         /\ queued' = queued
    ELSE /\ queued' = [queued EXCEPT ![k] = TRUE]
         /\ dirty' = dirty

\* the predicate of the notification's kind, applied to the informer's object
Classify(kind, old, new) ==
    CASE kind = "create" -> CreateFunc(new)
      [] kind = "update" -> UpdateFunc(old, new)
      [] kind = "generic" -> GenericFunc(new)
      [] kind = "delete" -> DeleteFunc(new)

\* the informer takes the next notification of k: it stores the object and
\* hands the stored pointer to the predicate, whose write lands in the cache;
\* a panic of the predicate ends the process
Deliver(k) ==
    /\ events[k] # <<>>
    /\ LET e == Head(events[k])
           r == Classify(e.kind, cache[k], e.obj)
       IN  IF r.panic
           THEN Halt
           ELSE /\ events' = [events EXCEPT ![k] = Tail(@)]
                /\ cache' = [cache EXCEPT ![k] = IF e.kind = "delete" THEN NoObj ELSE r.obj]
                /\ phase' = [phase EXCEPT ![k] =
                               IF r.admit /\ e.kind # "delete" THEN r.obj.ann ELSE @]
                /\ IF r.admit THEN Add(k) ELSE UNCHANGED <<queued, dirty>>
                /\ UNCHANGED <<storeVars, failures, delays, result, pc, b, running, extVars>>

Min(x, y) == IF x <= y THEN x ELSE y

\* mutant: the delay is not capped
Delay_NoMaximum(n) == BaseDelay * 2^n

\* the limiter's delay for a key that has failed n times before
Delay(n) == Min(BaseDelay * 2^n, MaxDelay)

\* the end of one Reconcile call: Forget on success; on an error the retry
\* limiter queues the key again, after its delay, unless its retries are
\* used up
Return(k, run, ok) ==
    /\ result' = [result EXCEPT ![k] = Result(run, ok, failures[k])]
    /\ pc' = [pc EXCEPT ![k] = "idle"]
    /\ b' = [b EXCEPT ![k] = NoObj]
    /\ dirty' = [dirty EXCEPT ![k] = FALSE]
    /\ IF ok
       THEN /\ failures' = [failures EXCEPT ![k] = 0]
            /\ delays' = [delays EXCEPT ![k] = <<>>]
            /\ queued' = [queued EXCEPT ![k] = dirty[k]]
       ELSE IF failures[k] < MaxTries
            THEN /\ failures' = [failures EXCEPT ![k] = @ + 1]
                 /\ delays' = [delays EXCEPT ![k] = Append(@, Delay(failures[k]))]
                 /\ queued' = [queued EXCEPT ![k] = TRUE]
            ELSE /\ failures' = failures
                 /\ delays' = delays
                 /\ queued' = [queued EXCEPT ![k] = dirty[k]]

\* a handler's error return
Fail(k) == Return(k, IF pc[k] \in CreateSteps THEN "create" ELSE "delete", FALSE)

\* a handler goes on to its next call
Goto(k, step) ==
    /\ pc' = [pc EXCEPT ![k] = step]
    /\ UNCHANGED <<b, queueVars>>

\* Reconcile hands the fetched object to a handler
Call(k, step) ==
    /\ pc' = [pc EXCEPT ![k] = step]
    /\ b' = [b EXCEPT ![k] = cache[k]]
    /\ queued' = [queued EXCEPT ![k] = FALSE]
    /\ result' = [result EXCEPT ![k] = NoResult]
    /\ UNCHANGED <<dirty, failures, delays>>

Busy == {j \in Keys : pc[j] # "idle"}

\* mutant: the switch has a case for updating that calls handleCreate
Reconcile_UpdatingCreates(k, getOk) ==
    /\ queued[k]
    /\ pc[k] = "idle"
    /\ Cardinality(Busy) < MaxConcurrentReconciles
    /\ IF ~getOk
       THEN Return(k, "fetch", FALSE)
       ELSE IF ~cache[k].present
       THEN Return(k, "none", TRUE)
       ELSE IF cache[k].ann \in {CreatingEvent, UpdatingEvent}
       THEN Call(k, "c_secret")
       ELSE IF cache[k].ann = DeletingEvent
       THEN Call(k, "d_secret")
       ELSE Return(k, "none", TRUE)
    /\ UNCHANGED <<storeVars, events, cache, phase, running, extVars>>

\* Reconcile up to its switch: Get (from the informer cache), then dispatch
\* on the state annotation
Reconcile(k, getOk) ==
    /\ queued[k]
    /\ pc[k] = "idle"
    /\ Cardinality(Busy) < MaxConcurrentReconciles
    /\ IF ~getOk
       THEN Return(k, "fetch", FALSE)
       ELSE IF ~cache[k].present
       THEN Return(k, "none", TRUE)
       ELSE IF cache[k].ann = CreatingEvent
       THEN Call(k, "c_secret")
       ELSE IF cache[k].ann = DeletingEvent
       THEN Call(k, "d_secret")
       ELSE Return(k, "none", TRUE)
    /\ UNCHANGED <<storeVars, events, cache, phase, running, extVars>>

\* ------------------------------------------------------------- handlers
\* handleSecret, called first by both handlers: Get of the credentials Secret
handleSecret(k, ok) ==
    /\ pc[k] \in {"c_secret", "d_secret"}
    /\ IF ok
       THEN Goto(k, IF pc[k] = "c_secret" THEN "c_session" ELSE "d_session")
       ELSE Fail(k)
    /\ UNCHANGED <<storeVars, events, cache, phase, running, extVars>>

\* mutant: the error of NewSession is logged and not returned
NewSession_ErrIgnored(k, ok) ==
    /\ pc[k] \in {"c_session", "d_session"}
    /\ Goto(k, IF pc[k] = "c_session" THEN "c_create" ELSE "d_delete")
    /\ UNCHANGED <<storeVars, events, cache, phase, running, extVars>>

\* session.NewSession in both handlers
NewSession(k, ok) ==
    /\ pc[k] \in {"c_session", "d_session"}
    /\ IF ok
       THEN Goto(k, IF pc[k] = "c_session" THEN "c_create" ELSE "d_delete")
       ELSE Fail(k)
    /\ UNCHANGED <<storeVars, events, cache, phase, running, extVars>>

\* svc.CreateBucket: on success the bucket exists
CreateBucket(k, ok) ==
    /\ pc[k] = "c_create"
    /\ IF ok
       THEN /\ bucket' = [bucket EXCEPT ![bucketName[k]] = TRUE]
            /\ made' = [made EXCEPT ![k] = TRUE]
            /\ everMade' = [everMade EXCEPT ![k] = TRUE]
            /\ Goto(k, "c_wait")
       ELSE /\ Fail(k)
            /\ UNCHANGED <<bucket, made, everMade>>
    /\ UNCHANGED <<storeVars, events, cache, phase, running, everGone, patchLost>>

\* svc.WaitUntilBucketExists: succeeds only on a bucket that exists, and may
\* time out
WaitUntilBucketExists(k, ok) ==
    /\ pc[k] = "c_wait"
    /\ IF ok
       THEN /\ bucket[bucketName[k]]
            /\ Goto(k, "c_patch")
       ELSE Fail(k)
    /\ UNCHANGED <<storeVars, events, cache, phase, running, extVars>>

\* the object a patch built by NewPatch leaves in the store: the state
\* annotation and the finalizer written together
Patched(obj, state, fin) == [obj EXCEPT !.ann = state, !.fin = fin]

\* mutant: the error of Patch is not returned
PatchCreated_ErrIgnored(k, ok) ==
    /\ pc[k] = "c_patch"
    /\ IF ok
       THEN /\ life[k] = "live"
            /\ HasRoom(k)
            /\ store' = [store EXCEPT ![k] = Patched(@, CreatedEvent, TRUE)]
            /\ Notify(k, "update", store'[k])
            /\ phase' = [phase EXCEPT ![k] = CreatedEvent]
            /\ Return(k, "create", TRUE)
       ELSE /\ Return(k, "create", TRUE)
            /\ UNCHANGED <<store, events, phase>>
    /\ UNCHANGED <<life, bucketName, cache, running, extVars>>

\* mutant: the finalizer and the state are written by two requests, and the
\* second one fails
PatchCreated_TwoWrites(k, ok) ==
    /\ pc[k] = "c_patch"
    /\ life[k] = "live"
    /\ HasRoom(k)
    /\ store' = [store EXCEPT ![k] = IF ok THEN Patched(@, CreatedEvent, TRUE)
                                            ELSE Patched(@, @.ann, TRUE)]
    /\ Notify(k, "update", store'[k])
    /\ IF ok
       THEN /\ phase' = [phase EXCEPT ![k] = CreatedEvent]
            /\ Return(k, "create", TRUE)
       ELSE /\ Fail(k)
            /\ UNCHANGED phase
    /\ UNCHANGED <<life, bucketName, cache, running, extVars>>

\* handleCreate's AddFinalizer, state = created, Patch
PatchCreated(k, ok) ==
    /\ pc[k] = "c_patch"
    /\ IF ok
       THEN /\ life[k] = "live"
            /\ HasRoom(k)
            /\ store' = [store EXCEPT ![k] = Patched(@, CreatedEvent, TRUE)]
            /\ Notify(k, "update", store'[k])
            /\ phase' = [phase EXCEPT ![k] = CreatedEvent]
            /\ Return(k, "create", TRUE)
       ELSE /\ Fail(k)
            /\ UNCHANGED <<store, events, phase>>
    /\ UNCHANGED <<life, bucketName, cache, running, extVars>>

\* svc.DeleteBucket: on success the bucket is gone
DeleteBucket(k, ok) ==
    /\ pc[k] = "d_delete"
    /\ IF ok
       THEN /\ bucket' = [bucket EXCEPT ![bucketName[k]] = FALSE]
            /\ made' = [made EXCEPT ![k] = FALSE]
            /\ Goto(k, "d_wait")
       ELSE /\ Fail(k)
            /\ UNCHANGED <<bucket, made>>
    /\ UNCHANGED <<storeVars, events, cache, phase, running, everMade, everGone, patchLost>>

\* mutant: the error of the wait is logged but not returned
WaitUntilBucketNotExists_ErrIgnored(k, ok) ==
    /\ pc[k] = "d_wait"
    /\ IF ok
       THEN /\ ~bucket[bucketName[k]]
            /\ everGone' = [everGone EXCEPT ![k] = TRUE]
            /\ Goto(k, "d_patch")
       ELSE /\ Goto(k, "d_patch")
            /\ UNCHANGED everGone
    /\ UNCHANGED <<storeVars, events, cache, phase, running, bucket, made, everMade, patchLost>>

\* svc.WaitUntilBucketNotExists: succeeds only once the bucket is absent
WaitUntilBucketNotExists(k, ok) ==
    /\ pc[k] = "d_wait"
    /\ IF ok
       THEN /\ ~bucket[bucketName[k]]
            /\ everGone' = [everGone EXCEPT ![k] = TRUE]
            /\ Goto(k, "d_patch")
       ELSE /\ Fail(k)
            /\ UNCHANGED everGone
    /\ UNCHANGED <<storeVars, events, cache, phase, running, bucket, made, everMade, patchLost>>

\* mutant: RemoveFinalizer is left out
PatchDeleted_KeepsFinalizer(k, ok) ==
    /\ pc[k] = "d_patch"
    /\ IF ok
       THEN /\ life[k] = "live"
            /\ HasRoom(k)
            /\ store' = [store EXCEPT ![k] = Patched(@, DeletedEvent, @.fin)]
            /\ Notify(k, "update", store'[k])
            /\ phase' = [phase EXCEPT ![k] = DeletedEvent]
            /\ Return(k, "delete", TRUE)
       ELSE /\ Fail(k)
            /\ UNCHANGED <<store, events, phase>>
    /\ patchLost' = [patchLost EXCEPT ![k] = ~ok]
    /\ UNCHANGED <<life, bucketName, cache, running, bucket, made, everMade, everGone>>

\* mutant: the finalizer is removed by a request of its own, before the
\* patch that may fail
PatchDeleted_FinalizerFirst(k, ok) ==
    /\ pc[k] = "d_patch"
    /\ life[k] = "live"
    /\ HasRoom(k)
    /\ store' = [store EXCEPT ![k] = IF ok THEN Patched(@, DeletedEvent, FALSE)
                                            ELSE Patched(@, @.ann, FALSE)]
    /\ Notify(k, "update", store'[k])
    /\ IF ok
       THEN /\ phase' = [phase EXCEPT ![k] = DeletedEvent]
            /\ Return(k, "delete", TRUE)
       ELSE /\ Fail(k)
            /\ UNCHANGED phase
    /\ patchLost' = [patchLost EXCEPT ![k] = ~ok]
    /\ UNCHANGED <<life, bucketName, cache, running, bucket, made, everMade, everGone>>

\* handleDelete's RemoveFinalizer, state = deleted, Patch
PatchDeleted(k, ok) ==
    /\ pc[k] = "d_patch"
    /\ IF ok
       THEN /\ life[k] = "live"
            /\ HasRoom(k)
            /\ store' = [store EXCEPT ![k] = Patched(@, DeletedEvent, FALSE)]
            /\ Notify(k, "update", store'[k])
            /\ phase' = [phase EXCEPT ![k] = DeletedEvent]
            /\ Return(k, "delete", TRUE)
       ELSE /\ Fail(k)
            /\ UNCHANGED <<store, events, phase>>
    /\ patchLost' = [patchLost EXCEPT ![k] = ~ok]
    /\ UNCHANGED <<life, bucketName, cache, running, bucket, made, everMade, everGone>>

\* ---------------------------------------------------------- the system
Next ==
    \/ \E k \in Keys : UserCreate(k)
    \/ \E k \in Keys : UserEditSpec(k)
    \/ \E k \in Keys : UserEditMeta(k)
    \/ \E k \in Keys, bump \in BOOLEAN : UserDelete(k, bump)
    \/ \E k \in Keys : StoreRemove(k)
    \/ Stop
    \/ Start
    \/ \E k \in Keys : Deliver(k)
    \/ \E k \in Keys, ok \in BOOLEAN : Reconcile(k, ok)
    \/ \E k \in Keys, ok \in BOOLEAN : handleSecret(k, ok)
    \/ \E k \in Keys, ok \in BOOLEAN : NewSession(k, ok)
    \/ \E k \in Keys, ok \in BOOLEAN : CreateBucket(k, ok)
    \/ \E k \in Keys, ok \in BOOLEAN : WaitUntilBucketExists(k, ok)
    \/ \E k \in Keys, ok \in BOOLEAN : PatchCreated(k, ok)
    \/ \E k \in Keys, ok \in BOOLEAN : DeleteBucket(k, ok)
    \/ \E k \in Keys, ok \in BOOLEAN : WaitUntilBucketNotExists(k, ok)
    \/ \E k \in Keys, ok \in BOOLEAN : PatchDeleted(k, ok)

Spec == Init /\ [][Next]_vars

\* Scenarios A and B left alone: the object is created and may be deleted,
\* nobody edits it and the process is not stopped from outside
ScenarioNext ==
    \/ Start
    \/ \E k \in Keys : UserCreate(k)
    \/ \E k \in Keys, bump \in BOOLEAN : UserDelete(k, bump)
    \/ \E k \in Keys : StoreRemove(k)
    \/ \E k \in Keys : Deliver(k)
    \/ \E k \in Keys, ok \in BOOLEAN : Reconcile(k, ok)
    \/ \E k \in Keys, ok \in BOOLEAN : handleSecret(k, ok)
    \/ \E k \in Keys, ok \in BOOLEAN : NewSession(k, ok)
    \/ \E k \in Keys, ok \in BOOLEAN : CreateBucket(k, ok)
    \/ \E k \in Keys, ok \in BOOLEAN : WaitUntilBucketExists(k, ok)
    \/ \E k \in Keys, ok \in BOOLEAN : PatchCreated(k, ok)
    \/ \E k \in Keys, ok \in BOOLEAN : DeleteBucket(k, ok)
    \/ \E k \in Keys, ok \in BOOLEAN : WaitUntilBucketNotExists(k, ok)
    \/ \E k \in Keys, ok \in BOOLEAN : PatchDeleted(k, ok)

\* the informer delivers, the worker takes queued keys and finishes the call
\* it is in, the store removes what it may remove (weak fairness); a call
\* that is tried again and again succeeds in the end (strong fairness)
Fairness ==
    \A k \in Keys :
        /\ WF_vars(Start)
        /\ WF_vars(Deliver(k))
        /\ WF_vars(StoreRemove(k))
        /\ WF_vars(\E ok \in BOOLEAN : Reconcile(k, ok))
        /\ WF_vars(\E ok \in BOOLEAN : handleSecret(k, ok))
        /\ WF_vars(\E ok \in BOOLEAN : NewSession(k, ok))
        /\ WF_vars(\E ok \in BOOLEAN : CreateBucket(k, ok))
        /\ WF_vars(\E ok \in BOOLEAN : WaitUntilBucketExists(k, ok))
        /\ WF_vars(\E ok \in BOOLEAN : PatchCreated(k, ok))
        /\ WF_vars(\E ok \in BOOLEAN : DeleteBucket(k, ok))
        /\ WF_vars(\E ok \in BOOLEAN : WaitUntilBucketNotExists(k, ok))
        /\ WF_vars(\E ok \in BOOLEAN : PatchDeleted(k, ok))
        /\ SF_vars(Reconcile(k, TRUE))
        /\ SF_vars(handleSecret(k, TRUE))
        /\ SF_vars(NewSession(k, TRUE))
        /\ SF_vars(CreateBucket(k, TRUE))
        /\ SF_vars(WaitUntilBucketExists(k, TRUE))
        /\ SF_vars(PatchCreated(k, TRUE))
        /\ SF_vars(DeleteBucket(k, TRUE))
        /\ SF_vars(WaitUntilBucketNotExists(k, TRUE))
        /\ SF_vars(PatchDeleted(k, TRUE))

FairSpec == Init /\ [][ScenarioNext]_vars /\ Fairness

\* ------------------------------------------------------- two objects
\* two objects, k1 and k2, which name the same bucket or different ones
InitTwo ==
    InitWith(Keys, {[k \in Keys |-> "b1"],
                    [k \in Keys |-> IF k = "k1" THEN "b1" ELSE "b2"]})

SpecTwo == InitTwo /\ [][ScenarioNext]_vars

\* ------------------------------------------- the classifier on its own
\* the state annotations an object handed to a predicate may carry
ClassifierAnns == {NilAnnotations, NoState, CreatedEvent, DeletedEvent, UnknownState}

\* the objects a notification may carry
ClassifierObjs ==
    [present : {TRUE}, ann : ClassifierAnns, fin : BOOLEAN, del : BOOLEAN, gen : 1..MaxGen]

\* the kinds of notification predicate.Funcs has a function for
ClassifierKinds == {"create", "update", "generic"}

\* the informer holds any object for k1 and is about to take any notification
\* of it
ClassifierInit ==
    \E kind \in ClassifierKinds, old \in ClassifierObjs, new \in ClassifierObjs :
        /\ life = [k \in Keys |-> IF k = "k1" THEN "live" ELSE "removed"]
        /\ store = [k \in Keys |-> IF k = "k1" THEN new ELSE NoObj]
        /\ bucketName = [k \in Keys |-> IF k = "k1" THEN "b1" ELSE "b2"]
        /\ events = [k \in Keys |-> IF k = "k1" THEN <<Ev(kind, new)>> ELSE <<>>]
        /\ cache = [k \in Keys |-> IF k = "k1" THEN old ELSE NoObj]
        /\ queued = [k \in Keys |-> FALSE]
        /\ dirty = [k \in Keys |-> FALSE]
        /\ failures = [k \in Keys |-> 0]
        /\ delays = [k \in Keys |-> <<>>]
        /\ pc = [k \in Keys |-> "idle"]
        /\ b = [k \in Keys |-> NoObj]
        /\ bucket = [n \in BucketNames |-> FALSE]
        /\ made = [k \in Keys |-> FALSE]
        /\ everMade = [k \in Keys |-> FALSE]
        /\ everGone = [k \in Keys |-> FALSE]
        /\ patchLost = [k \in Keys |-> FALSE]
        /\ result = [k \in Keys |-> NoResult]
        /\ phase = [k \in Keys |-> NoState]
        /\ running = TRUE

ClassifierNext == \E k \in Keys : Deliver(k)

ClassifierSpec == ClassifierInit /\ [][ClassifierNext]_vars

\* the whole controller, started on any notification of an existing object
FrameNext ==
    \/ \E k \in Keys : UserEditSpec(k)
    \/ \E k \in Keys : UserEditMeta(k)
    \/ \E k \in Keys, bump \in BOOLEAN : UserDelete(k, bump)
    \/ \E k \in Keys : StoreRemove(k)
    \/ Stop
    \/ Start
    \/ \E k \in Keys : Deliver(k)
    \/ \E k \in Keys, ok \in BOOLEAN : Reconcile(k, ok)
    \/ \E k \in Keys, ok \in BOOLEAN : handleSecret(k, ok)
    \/ \E k \in Keys, ok \in BOOLEAN : NewSession(k, ok)
    \/ \E k \in Keys, ok \in BOOLEAN : CreateBucket(k, ok)
    \/ \E k \in Keys, ok \in BOOLEAN : WaitUntilBucketExists(k, ok)
    \/ \E k \in Keys, ok \in BOOLEAN : PatchCreated(k, ok)
    \/ \E k \in Keys, ok \in BOOLEAN : DeleteBucket(k, ok)
    \/ \E k \in Keys, ok \in BOOLEAN : WaitUntilBucketNotExists(k, ok)
    \/ \E k \in Keys, ok \in BOOLEAN : PatchDeleted(k, ok)

FrameSpec == ClassifierInit /\ [][FrameNext]_vars

\* ---------------------------------------------------------- properties
\* the step is the return of a handler run of the given kind with success
Succeeds(k, run) ==
    /\ pc[k] # "idle"
    /\ pc'[k] = "idle"
    /\ result'[k].run = run
    /\ result'[k].ok

\* the step is the return of a handler run with an error
Fails(k) ==
    /\ pc[k] # "idle"
    /\ pc'[k] = "idle"
    /\ result'[k].run \in {"create", "delete"}
    /\ ~result'[k].ok

\* the next notification of k is of one of the kinds and the step delivers it
Delivers(k, kinds) ==
    /\ events[k] # <<>>
    /\ Head(events[k]).kind \in kinds
    /\ Deliver(k)

\* the controller has nothing pending for k
AtRest(k) ==
    /\ events[k] = <<>>
    /\ ~queued[k]
    /\ ~dirty[k]
    /\ pc[k] = "idle"

\* C1: whenever a create-handler run returns success the stored object holds
\* the finalizer and state = created; whenever a delete-handler run returns
\* success the stored object holds no finalizer and state = deleted.
C1_HandlerSuccessState ==
    [][\A k \in Keys :
        /\ Succeeds(k, "create") =>
             store'[k].present /\ store'[k].fin /\ store'[k].ann = CreatedEvent
        /\ Succeeds(k, "delete") =>
             store'[k].present /\ ~store'[k].fin /\ store'[k].ann = DeletedEvent]_vars

\* a delete-handler run (which follows a successful create-handler run) has
\* just returned success
C1_Witness ==
    \E k \in Keys :
        /\ result[k] = Result("delete", TRUE, 0)
        /\ everMade[k]
        /\ store[k].present /\ ~store[k].fin /\ store[k].ann = DeletedEvent

\* C3: the store never completes the removal of a record while the external
\* bucket created for that record still exists.
C3_NoOrphanedBucket ==
    \A k \in Keys : life[k] = "removed" => ~(made[k] /\ bucket[bucketName[k]])

\* C4: an update notification whose generation equals the previous
\* snapshot's is not admitted (nothing is added to the work queue, no
\* Reconcile is started for it) and the state annotation of the object it
\* carries is left as it is.
C4_SameGenerationRejected ==
    [][\A k \in Keys :
        (/\ Delivers(k, {"update"})
         /\ Head(events[k]).obj.gen = cache[k].gen)
        => /\ cache'[k] = Head(events[k]).obj
           /\ queued' = queued
           /\ dirty' = dirty
           /\ pc' = pc
           /\ result' = result
           /\ store' = store]_vars

\* the informer holds the object as patched by the create handler, state
\* created: it took it from an update notification of unchanged generation,
\* which left the key out of the queue
C4_Witness ==
    \E k \in Keys :
        /\ cache[k].present /\ cache[k].ann = CreatedEvent /\ cache[k].fin
        /\ cache[k].gen = 1 /\ ~cache[k].del
        /\ AtRest(k) /\ running

\* C5: any create or update notification whose object carries a deletion
\* timestamp leaves the object stamped deleting.
C5_DeletionAlwaysStamped ==
    [][\A k \in Keys :
        (Delivers(k, {"create", "update"}) /\ Head(events[k]).obj.del)
        => cache'[k].ann = DeletingEvent]_vars

\* C2 (as claimed): in every reachable state the finalizer is in the list if
\* and only if an external bucket was successfully created for the object
\* and not yet successfully deleted.
C2_FinalizerIffBucket ==
    \A k \in Keys : life[k] = "live" => (store[k].fin <=> made[k])

\* C2 (amended): the finalizer is in the list only if an external bucket was
\* successfully created for the object, and the object is in state deleted,
\* without the finalizer, only if the external delete and the wait for the
\* bucket's absence succeeded.
C2_FinalizerOnlyAfterCreate ==
    \A k \in Keys :
        /\ store[k].fin => everMade[k]
        /\ (store[k].present /\ store[k].ann = DeletedEvent)
             => (~store[k].fin /\ everGone[k] /\ ~made[k])

\* the finalizer is in the list while the bucket is gone: a delete handler
\* stands between its DeleteBucket call and its patch
C2_Witness ==
    \E k \in Keys :
        /\ store[k].fin /\ store[k].del
        /\ everMade[k] /\ ~made[k]
        /\ pc[k] = "d_patch"

\* C6: once the deletion timestamp of a record at created, holding the
\* finalizer, is set and its notification is taken in, and no call has
\* failed, the delete handler is queued or running until the record is
\* removed: the controller is never at rest on it.
C6_DeletionConverges ==
    \A k \in Keys :
        (/\ store[k].present /\ store[k].del /\ store[k].fin
         /\ store[k].ann = CreatedEvent
         /\ events[k] = <<>>
         /\ failures[k] = 0
         /\ result[k].run \notin {"delete", "fetch"})
        => (queued[k] \/ dirty[k] \/ pc[k] \in DeleteSteps)

\* C8: a handler run that is a retry after a failed run and returns success
\* ends in the state an uninterrupted run ends in: create with the finalizer
\* present, state created and the bucket in place; delete with the finalizer
\* absent, state deleted and the bucket gone.
C8_RerunSameFinalState ==
    [][\A k \in Keys :
        /\ (Succeeds(k, "create") /\ result'[k].retries > 0) =>
             /\ store'[k] = Patched(store[k], CreatedEvent, TRUE)
             /\ store'[k].present /\ store'[k].fin /\ store'[k].ann = CreatedEvent
             /\ bucket'[bucketName[k]]
        /\ (Succeeds(k, "delete") /\ result'[k].retries > 0) =>
             /\ store'[k] = Patched(store[k], DeletedEvent, FALSE)
             /\ store'[k].present /\ ~store'[k].fin /\ store'[k].ann = DeletedEvent
             /\ ~bucket'[bucketName[k]]]_vars

\* a create-handler run has returned success on a retry
C8_Witness ==
    \E k \in Keys :
        /\ result[k].run = "create" /\ result[k].ok /\ result[k].retries > 0
        /\ store[k].present /\ store[k].fin /\ store[k].ann = CreatedEvent
        /\ bucket[bucketName[k]]

\* C9: after the delete handler's finalizer-removing patch has failed, the
\* external delete call is not made again.
C9_NoSecondExternalDelete ==
    [][\A k \in Keys :
        patchLost[k] => ~(pc[k] = "d_delete" /\ \E ok \in BOOLEAN : DeleteBucket(k, ok))]_vars

\* C10: the state Reconcile reads for an object is the state last stamped by
\* a predicate or last written by a handler.
C10_ReadsLastStampedPhase ==
    [][\A k \in Keys :
        (cache[k].present /\ Reconcile(k, TRUE)) => cache[k].ann = phase[k]]_vars

\* the retry limiter has given the key up
GivenUp(k) == AtRest(k) /\ failures[k] = MaxTries /\ ~result[k].ok

\* C7: a freshly created object without deletion timestamp reaches finalizer
\* present and state created, under fair scheduling and with every call
\* succeeding in the end, unless its deletion is requested or its retries
\* run out first.
C7_CreationConverges ==
    \A k \in Keys :
        (life[k] = "live" /\ ~store[k].del)
        ~> \/ store[k].fin /\ store[k].ann = CreatedEvent
           \/ life[k] # "live"
           \/ store[k].del
           \/ GivenUp(k)

\* C11: the state annotation and the finalizer of a stored object change
\* only together, by the one patch that ends a successful handler run; a
\* reconciliation that fails, or that is cut off by the end of the process,
\* leaves the stored object as it was.
C11_PairPatchedTogether ==
    [][\A k \in Keys :
        /\ (store[k].present /\ store'[k].present) =>
              /\ (store'[k].ann # store[k].ann) <=> (store'[k].fin # store[k].fin)
              /\ (store'[k].ann # store[k].ann) =>
                    /\ pc[k] \in {"c_patch", "d_patch"}
                    /\ Succeeds(k, "create") \/ Succeeds(k, "delete")
                    /\ store'[k] \in {Patched(store[k], CreatedEvent, TRUE),
                                      Patched(store[k], DeletedEvent, FALSE)}
        /\ Fails(k) => store' = store
        /\ (pc[k] # "idle" /\ running /\ ~running') => store' = store]_vars

\* the process ended while a create handler had made the bucket and not yet
\* patched the object: neither the state nor the finalizer was written
C11_Witness ==
    \E k \in Keys :
        /\ ~running
        /\ made[k]
        /\ store[k].present /\ ~store[k].fin
        /\ store[k].ann \notin {CreatedEvent, DeletedEvent}

\* the step is the return of a Reconcile call on k with an error
ReturnsError(k) == Fails(k) \/ Reconcile(k, FALSE)

\* the step is the return of a Reconcile call on k without error
ReturnsSuccess(k) ==
    \/ Succeeds(k, "create")
    \/ Succeeds(k, "delete")
    \/ Reconcile(k, TRUE) /\ pc'[k] = "idle"

\* the delays of n failures in a row: base, base*2, base*4, ... up to the
\* maximum delay
Backoff(n) ==
    [i \in 1..n |-> IF BaseDelay * 2^(i - 1) < MaxDelay THEN BaseDelay * 2^(i - 1)
                                                        ELSE MaxDelay]

\* C12: the delays the retry limiter gave a key since its last success are
\* min(BaseDelay * 2^i, MaxDelay) for i = 0, 1, ..., one per failure; a key
\* that fails with its retries used up is not queued again; a successful
\* Reconcile call sets the failure count of its key to zero.
C12_BackoffSchedule ==
    /\ [](\A k \in Keys :
            /\ failures[k] <= MaxTries
            /\ delays[k] = Backoff(failures[k]))
    /\ [][\A k \in Keys :
            /\ (ReturnsError(k) /\ failures[k] < MaxTries) =>
                  /\ queued'[k]
                  /\ failures'[k] = failures[k] + 1
            /\ (ReturnsError(k) /\ failures[k] = MaxTries) =>
                  /\ ~dirty[k] => ~queued'[k]
                  /\ delays'[k] = delays[k]
            /\ ReturnsSuccess(k) =>
                  /\ failures'[k] = 0
                  /\ delays'[k] = <<>>]_vars

\* Scenario C: the create handler has failed three times in a row after
\* making the bucket; the third delay is the capped one, the finalizer is absent
C12_Witness ==
    \E k \in Keys :
        /\ result[k] = Result("create", FALSE, 2)
        /\ Len(delays[k]) = 3
        /\ delays[k][3] = MaxDelay /\ delays[k][2] = 2 * BaseDelay
        /\ made[k]
        /\ store[k].present /\ ~store[k].fin

\* C13: a create-handler run that fails at handleSecret, NewSession,
\* CreateBucket or WaitUntilBucketExists returns an error and writes nothing
\* to the stored object; and the Reconcile call that retries it, on an object
\* that was neither edited in its spec nor marked for deletion, calls the
\* create handler again.
C13_FailedCreateRetried ==
    [][\A k \in Keys :
        /\ (pc[k] \in {"c_secret", "c_session", "c_create", "c_wait"}
             /\ \E ok \in BOOLEAN : \/ handleSecret(k, ok) \/ NewSession(k, ok)
                                     \/ CreateBucket(k, ok) \/ WaitUntilBucketExists(k, ok))
            => /\ store' = store
               /\ pc'[k] = "idle" => (result'[k].run = "create" /\ ~result'[k].ok)
        /\ (/\ Reconcile(k, TRUE)
             /\ result[k].run = "create" /\ ~result[k].ok
             /\ result[k].retries < MaxTries
             /\ store[k].present /\ ~store[k].del /\ store[k].gen = 1)
            => pc'[k] = "c_secret"]_vars

\* C14: the finalizer leaves the stored object only in the step that ends a
\* delete-handler run with success, a run whose DeleteBucket and
\* WaitUntilBucketNotExists have succeeded; a delete-handler run that fails, at
\* whichever step, returns an error and leaves the stored object, its
\* finalizer and its state, as it was.
C14_FinalizerOutlivesFailure ==
    [][\A k \in Keys :
        /\ (store[k].fin /\ store'[k].present /\ ~store'[k].fin) =>
              /\ pc[k] = "d_patch"
              /\ Succeeds(k, "delete")
              /\ everGone[k] /\ ~made[k]
        /\ (pc[k] \in DeleteSteps /\ pc'[k] = "idle" /\ running' /\ ~Succeeds(k, "delete")) =>
              /\ result'[k] = Result("delete", FALSE, failures[k])
              /\ store' = store
              /\ store[k].fin => (store'[k].fin /\ store'[k].ann # DeletedEvent)]_vars

\* the patch of a delete-handler run failed after the bucket was deleted and
\* found absent: the finalizer is still in the list, the state is not deleted
C14_Witness ==
    \E k \in Keys :
        /\ result[k].run = "delete" /\ ~result[k].ok
        /\ patchLost[k]
        /\ everGone[k] /\ ~bucket[bucketName[k]]
        /\ store[k].present /\ store[k].fin /\ store[k].ann # DeletedEvent

\* C15: Reconcile, having fetched the object, calls the create handler when
\* the state annotation is creating, the delete handler when it is deleting,
\* and for every other value (or none) returns success at once: the key is
\* not queued again, nothing is written to the store, no bucket call is made.
C15_DispatchOnState ==
    [][\A k \in Keys :
        (Reconcile(k, TRUE) /\ cache[k].present) =>
            /\ cache[k].ann = CreatingEvent => pc'[k] = "c_secret"
            /\ cache[k].ann = DeletingEvent => pc'[k] = "d_secret"
            /\ cache[k].ann \notin {CreatingEvent, DeletingEvent} =>
                  /\ pc'[k] = "idle"
                  /\ result'[k] = Result("none", TRUE, failures[k])
                  /\ ~queued'[k]
                  /\ failures'[k] = 0
                  /\ store' = store
                  /\ extVars' = extVars]_vars

\* Reconcile has returned success without calling a handler on an object
\* stamped updating
C15_Witness ==
    \E k \in Keys :
        /\ cache[k].present /\ cache[k].ann = UpdatingEvent
        /\ result[k].run = "none" /\ result[k].ok
        /\ AtRest(k) /\ running

\* the step is a call of one of k's handlers returning an error
StepFails(k) ==
    \/ handleSecret(k, FALSE)
    \/ NewSession(k, FALSE)
    \/ CreateBucket(k, FALSE)
    \/ WaitUntilBucketExists(k, FALSE)
    \/ PatchCreated(k, FALSE)
    \/ DeleteBucket(k, FALSE)
    \/ WaitUntilBucketNotExists(k, FALSE)
    \/ PatchDeleted(k, FALSE)

\* C16: Reconcile on a key whose object is not found returns success, with
\* nothing queued again, nothing written and no bucket call made; a Get that
\* fails otherwise, and every failing call of a handler, ends the Reconcile call
\* with an error, which the retry limiter answers by queueing the key again
\* while it has retries left.
C16_OnlyNotFoundSwallowed ==
    [][\A k \in Keys :
        /\ (Reconcile(k, TRUE) /\ ~cache[k].present) =>
              /\ pc'[k] = "idle"
              /\ result'[k] = Result("none", TRUE, failures[k])
              /\ ~queued'[k]
              /\ failures'[k] = 0
              /\ store' = store
              /\ extVars' = extVars
        /\ Reconcile(k, FALSE) =>
              /\ result'[k] = Result("fetch", FALSE, failures[k])
              /\ failures[k] < MaxTries => queued'[k]
        /\ StepFails(k) =>
              /\ Fails(k)
              /\ failures[k] < MaxTries => queued'[k]]_vars

\* the record is removed, its delete notification was admitted, and the
\* Reconcile call it caused found no object and returned success
C16_Witness ==
    \E k \in Keys :
        /\ life[k] = "removed"
        /\ ~cache[k].present
        /\ result[k] = Result("none", TRUE, 0)
        /\ AtRest(k) /\ running

\* the notification delivered by the step was admitted with the object
\* stamped v
AdmittedAs(k, v) ==
    /\ running'
    /\ queued'[k] \/ dirty'[k]
    /\ cache'[k].ann = v

\* the notification delivered by the step was rejected
Rejected(k) ==
    /\ running'
    /\ queued' = queued
    /\ dirty' = dirty

\* C17: every notification is classified by the rule table: create is
\* admitted, stamped deleting with a deletion timestamp and creating without;
\* update with a changed generation is admitted, stamped deleting with a
\* deletion timestamp and updating without; update with the generation
\* unchanged is rejected; generic is admitted, stamped generic.
C17_ClassifierRuleTable ==
    [][\A k \in Keys :
        Delivers(k, ClassifierKinds) =>
            LET e == Head(events[k])
                old == cache[k]
            IN  /\ e.kind = "create" =>
                      AdmittedAs(k, IF e.obj.del THEN DeletingEvent ELSE CreatingEvent)
                /\ (e.kind = "update" /\ e.obj.gen # old.gen) =>
                      AdmittedAs(k, IF e.obj.del THEN DeletingEvent ELSE UpdatingEvent)
                /\ (e.kind = "update" /\ e.obj.gen = old.gen) => Rejected(k)
                /\ e.kind = "generic" => AdmittedAs(k, GenericEvent)]_vars

\* C20: a predicate writes nothing but the state annotation: the step that
\* delivers a create, update or generic notification leaves the stored object,
\* its spec and the buckets alone, and the object it leaves in the informer
\* has the finalizer, the generation and the deletion timestamp the
\* notification carried; the finalizer of a stored object appears only in the
\* step that ends a create-handler run with success and disappears only in the
\* step that ends a delete-handler run with success.
C20_ClassifierWritesStateOnly ==
    [][\A k \in Keys :
        /\ Delivers(k, ClassifierKinds) =>
              /\ storeVars' = storeVars
              /\ extVars' = extVars
              /\ running' => cache'[k] = [Head(events[k]).obj EXCEPT !.ann = cache'[k].ann]
        /\ (~store[k].fin /\ store'[k].fin) => Succeeds(k, "create")
        /\ (store[k].fin /\ ~store'[k].fin) => Succeeds(k, "delete")]_vars

\* a generic notification of an object that holds the finalizer and a
\* deletion timestamp was admitted: the object is stamped generic and still
\* holds both
C20_Witness ==
    \E k \in Keys :
        /\ cache[k].present /\ cache[k].ann = GenericEvent
        /\ cache[k].fin /\ cache[k].del
        /\ store[k].fin /\ store[k].del /\ store[k].ann = CreatedEvent
        /\ queued[k] /\ events[k] = <<>>

\* the step is a step of the Reconcile call on k
ReconcileStep(k) ==
    \E ok \in BOOLEAN :
        \/ Reconcile(k, ok) \/ handleSecret(k, ok) \/ NewSession(k, ok)
        \/ CreateBucket(k, ok) \/ WaitUntilBucketExists(k, ok) \/ PatchCreated(k, ok)
        \/ DeleteBucket(k, ok) \/ WaitUntilBucketNotExists(k, ok) \/ PatchDeleted(k, ok)

\* C18: no step of the Reconcile call on one object changes the stored state
\* annotation or finalizer of another, or deletes or creates the bucket
\* that another object's finalizer guards, whether or not the two objects name
\* the same bucket.
C18_ObjectsIndependent ==
    [][\A k \in Keys : \A j \in Keys \ {k} :
        ReconcileStep(k) =>
            /\ store'[j] = store[j]
            /\ (store[j].fin /\ bucketName[j] = bucketName[k]) =>
                  /\ ~CreateBucket(k, TRUE)
                  /\ ~DeleteBucket(k, TRUE)
            /\ store[j].fin => (bucket'[bucketName[j]] = bucket[bucketName[j]])]_vars

\* C19: once the create handler of an object has succeeded, so that the
\* stored object is at created with the finalizer, no CreateBucket call is
\* made for that object again, whatever notifications and Reconcile calls
\* follow, a restart of the process included.
C19_CreateIssuedOnce ==
    [][\A k \in Keys :
        (store[k].present /\ store[k].fin /\ store[k].ann = CreatedEvent)
        => ~(\E ok \in BOOLEAN : CreateBucket(k, ok))]_vars

====
